---- MODULE Spec2Model ----
(***************************************************************************)
(* Model of dbt_checkpoint/check_column_desc_are_same.py: the hook that    *)
(* collects the column declarations of all schema files, sorts them by     *)
(* column name, groups equal names and reports the names whose             *)
(* descriptions differ.                                                    *)
(*                                                                         *)
(* Python strings are modelled as tuples of code points, so that the       *)
(* case-sensitive lexicographic order of str is computed and not assumed.  *)
(* Python's None is the value NoneVal, which is no string.                 *)
(***************************************************************************)
EXTENDS Integers, Sequences, FiniteSets, TLC

\* ------------------------------------------------------------------ bounds
MaxRecords == 2
MaxColumns == 3

\* ------------------------------------------------------------- value space
NoneVal == <<-1>>
Str_A == <<65>>
Str_a == <<97>>
Str_empty == <<>>
Str_x == <<120>>

Names == {Str_A, Str_a}
Descs == {Str_empty, Str_x}
Files == {"f1", "f2"}

\* A column mapping of a schema: the keys "name" and "description" may each
\* be missing.
Columns ==
    {[name |-> n, description |-> d] : n \in Names, d \in Descs}
        \cup {[name |-> n] : n \in Names}
        \cup {[description |-> Str_x]}

\* The value of args.ignore: None when --ignore is not given, else a list of
\* column names.
Ignores == {[given |-> FALSE, names |-> <<>>],
            [given |-> TRUE, names |-> <<>>],
            [given |-> TRUE, names |-> <<Str_a>>]}

\* ---------------------------------------------------------------- helpers
\* dict.get(key): the value, or None when the key is missing.
Get(mapping, key) ==
    IF key \in DOMAIN mapping THEN mapping[key] ELSE NoneVal

\* ColumnDescription(column_name, desc, item.file)
ColumnDescription(column_name, desc, file) ==
    [column_name |-> column_name, description |-> desc, file |-> file]

InList(x, list) == \E i \in 1..Len(list) : list[i] = x

\* ignore or []
OrEmpty(ignore) == IF ignore.given THEN ignore.names ELSE <<>>

\* Variant of ColumnsOfItem that does not consult the ignore list.
RECURSIVE ColumnsOfItem_NoIgnore(_, _, _)
ColumnsOfItem_NoIgnore(cols, file, ignore_list) ==
    IF cols = <<>> THEN <<>>
    ELSE LET column == Head(cols)
             desc == Get(column, "description")
             column_name == Get(column, "name")
         IN  <<ColumnDescription(column_name, desc, file)>>
                \o ColumnsOfItem_NoIgnore(Tail(cols), file, ignore_list)

\* Variant of ColumnsOfItem that reads the description with a default of "",
\* as column.get("description", "") would.
RECURSIVE ColumnsOfItem_DescDefault(_, _, _)
ColumnsOfItem_DescDefault(cols, file, ignore_list) ==
    IF cols = <<>> THEN <<>>
    ELSE LET column == Head(cols)
             desc == IF "description" \in DOMAIN column
                     THEN column.description ELSE Str_empty
             column_name == Get(column, "name")
             rest == ColumnsOfItem_DescDefault(Tail(cols), file, ignore_list)
         IN  IF ~InList(column_name, ignore_list)
             THEN <<ColumnDescription(column_name, desc, file)>> \o rest
             ELSE rest

\* The descriptors one schema record yields (inner loop of get_all_columns).
RECURSIVE ColumnsOfItem(_, _, _)
ColumnsOfItem(cols, file, ignore_list) ==
    IF cols = <<>> THEN <<>>
    ELSE LET column == Head(cols)
             desc == Get(column, "description")
             column_name == Get(column, "name")
             rest == ColumnsOfItem(Tail(cols), file, ignore_list)
         IN  IF ~InList(column_name, ignore_list)
             THEN <<ColumnDescription(column_name, desc, file)>> \o rest
             ELSE rest

\* item.schema.get("columns", {})
SchemaColumns(item) ==
    IF "columns" \in DOMAIN item.schema THEN item.schema.columns ELSE <<>>

\* Variant of get_all_columns that stops after the first schema record.
get_all_columns_FirstItemOnly(schemas, ignore_list) ==
    IF schemas = <<>> THEN <<>>
    ELSE ColumnsOfItem(SchemaColumns(Head(schemas)), Head(schemas).file, ignore_list)

\* get_all_columns: the descriptors of all records, in the order yielded.
RECURSIVE get_all_columns(_, _)
get_all_columns(schemas, ignore_list) ==
    IF schemas = <<>> THEN <<>>
    ELSE ColumnsOfItem(SchemaColumns(Head(schemas)), Head(schemas).file, ignore_list)
            \o get_all_columns(Tail(schemas), ignore_list)

\* str < str: case-sensitive lexicographic order on code points.
RECURSIVE StrLess(_, _)
StrLess(s, t) ==
    IF t = <<>> THEN FALSE
    ELSE IF s = <<>> THEN TRUE
    ELSE IF Head(s) # Head(t) THEN Head(s) < Head(t)
    ELSE StrLess(Tail(s), Tail(t))

\* key=lambda x: x.column_name
SortKey(x) == x.column_name

\* list.sort compares keys with <, which raises TypeError as soon as one
\* operand is None; with two or more elements every key is compared at
\* least once, with fewer no comparison is made.
SortRaises(columns) ==
    /\ Len(columns) >= 2
    /\ \E i \in 1..Len(columns) : SortKey(columns[i]) = NoneVal

RECURSIVE InsertSorted(_, _)
InsertSorted(x, sorted) ==
    IF sorted = <<>> THEN <<x>>
    ELSE IF StrLess(SortKey(x), SortKey(Head(sorted)))
         THEN <<x>> \o sorted
         ELSE <<Head(sorted)>> \o InsertSorted(x, Tail(sorted))

\* Variant of SortByName that leaves the list as collected.
SortByName_Unsorted(columns) == columns

\* all_columns.sort(key=...): a stable sort by column name.
RECURSIVE SortByName(_)
SortByName(columns) ==
    IF Len(columns) < 2 THEN columns
    ELSE InsertSorted(columns[Len(columns)],
                      SortByName(SubSeq(columns, 1, Len(columns) - 1)))

\* str.lower on code points.
Lower(s) == [i \in 1..Len(s) |-> IF s[i] \in 65..90 THEN s[i] + 32 ELSE s[i]]

\* Variant of GroupKey that groups case-insensitively.
GroupKey_Lower(x) == Lower(x.column_name)

\* lambda x: x.column_name, the key of groupby
GroupKey(x) == x.column_name

\* itertools.groupby: the group starting at position i is the maximal run of
\* consecutive elements whose key equals the key of element i.
RECURSIVE GroupEnd(_, _)
GroupEnd(columns, i) ==
    IF i < Len(columns) /\ GroupKey(columns[i + 1]) = GroupKey(columns[i])
    THEN GroupEnd(columns, i + 1)
    ELSE i

\* Variant of Counter that records each distinct value with count 1.
RECURSIVE Counter_NoIncrement(_)
Counter_NoIncrement(values) ==
    IF values = <<>> THEN <<>>
    ELSE LET n == Len(values)
             cnt == Counter_NoIncrement(SubSeq(values, 1, n - 1))
             v == values[n]
         IN  IF \E i \in 1..Len(cnt) : cnt[i].key = v
             THEN cnt
             ELSE Append(cnt, [key |-> v, count |-> 1])

\* Counter(list): one entry per distinct value, in order of first
\* appearance, with the number of its occurrences.
RECURSIVE Counter(_)
Counter(values) ==
    IF values = <<>> THEN <<>>
    ELSE LET n == Len(values)
             cnt == Counter(SubSeq(values, 1, n - 1))
             v == values[n]
         IN  IF \E i \in 1..Len(cnt) : cnt[i].key = v
             THEN [i \in 1..Len(cnt) |->
                     IF cnt[i].key = v
                     THEN [key |-> v, count |-> cnt[i].count + 1]
                     ELSE cnt[i]]
             ELSE Append(cnt, [key |-> v, count |-> 1])

\* ------------------------------------------------------------------ state
VARIABLES
    pc,               \* position in main / check_column_desc
    ignore,           \* args.ignore
    manifest,         \* "unset" | "loaded" | "failed"
    schemas,          \* the records get_model_schemas produced in this run
    all_columns,      \* local of check_column_desc
    idx,              \* position of the groupby iterator in all_columns
    grouped,          \* the (name, group_list) pairs the loop has consumed
    status_code,      \* local of check_column_desc
    stdout,           \* the diagnostic and conflict lines printed
    hook_properties,  \* <<>> until check_column_desc returned, then <<status>>
    events,           \* the events handed to track_hook_event
    ret               \* <<>> until main returned, then <<exit code>>

vars == <<pc, ignore, manifest, schemas, all_columns, idx, grouped,
          status_code, stdout, hook_properties, events, ret>>

\* ---------------------------------------------------------------- inputs
RECURSIVE SumTo(_, _)
SumTo(lens, k) == IF k = 0 THEN 0 ELSE lens[k] + SumTo(lens, k - 1)

\* The schema records of a run: at most MaxRecords records holding at most
\* MaxColumns column entries together.  File paths are opaque, so the file
\* of the first record is called FirstFile.  A record without columns is
\* drawn as the only record of a run: its "columns" list is empty or it
\* lacks the key.
FirstFile == "f1"

MakeSchemas(k, lens, flat, fl, nokey) ==
    [i \in 1..k |->
        [file |-> fl[i],
         schema |->
            IF i = k /\ nokey
            THEN [description |-> Str_x]
            ELSE [columns |-> SubSeq(flat, SumTo(lens, i - 1) + 1, SumTo(lens, i))]]]

\* ------------------------------------------------------------------- Init
Init ==
    /\ pc = "load_manifest"
    /\ ignore \in Ignores
    /\ manifest = "unset"
    /\ schemas = <<>>
    /\ all_columns = <<>>
    /\ idx = 1
    /\ grouped = <<>>
    /\ status_code = 0
    /\ stdout = <<>>
    /\ hook_properties = <<>>
    /\ events = <<>>
    /\ ret = <<>>

\* ---------------------------------------------------------------- actions
\* Variant of LoadManifestFail that prints the diagnostic but does not return.
LoadManifestFail_NoReturn ==
    /\ pc = "load_manifest"
    /\ manifest' = "failed"
    /\ stdout' = Append(stdout, [kind |-> "manifest_error", name |-> NoneVal, counts |-> <<>>])
    /\ pc' = "collect"
    /\ UNCHANGED <<ignore, schemas, all_columns, idx, grouped, status_code,
                   hook_properties, events, ret>>

\* main, lines 128-132: get_dbt_manifest raises JsonOpenError.
LoadManifestFail ==
    /\ pc = "load_manifest"
    /\ manifest' = "failed"
    /\ stdout' = Append(stdout, [kind |-> "manifest_error", name |-> NoneVal, counts |-> <<>>])
    /\ ret' = <<1>>
    /\ pc' = "returned"
    /\ UNCHANGED <<ignore, schemas, all_columns, idx, grouped, status_code,
                   hook_properties, events>>

\* main, lines 128-135: the manifest is loaded and check_column_desc is called.
LoadManifestOk ==
    /\ pc = "load_manifest"
    /\ manifest' = "loaded"
    /\ pc' = "collect"
    /\ UNCHANGED <<ignore, schemas, all_columns, idx, grouped, status_code,
                   stdout, hook_properties, events, ret>>

\* check_column_desc, lines 68-85: read the schema records of the paths and
\* append every descriptor get_all_columns yields.
Collect ==
    /\ pc = "collect"
    /\ \E k \in 0..MaxRecords :
       \E lens \in [1..k -> 0..MaxColumns] :
          /\ SumTo(lens, k) <= MaxColumns
          /\ k >= 2 => \A i \in 1..k : lens[i] >= 1
          /\ \E flat \in [1..SumTo(lens, k) -> Columns] :
             \E fl \in [1..k -> Files] :
             \E nokey \in BOOLEAN :
                /\ k >= 1 => fl[1] = FirstFile
                /\ nokey => k = 1 /\ lens[1] = 0
                /\ schemas' = MakeSchemas(k, lens, flat, fl, nokey)
    /\ status_code' = 0
    /\ all_columns' = get_all_columns(schemas', OrEmpty(ignore))
    /\ pc' = "sort"
    /\ UNCHANGED <<ignore, manifest, idx, grouped, stdout, hook_properties,
                   events, ret>>

\* check_column_desc, line 88, when a comparison raises TypeError: the
\* exception leaves check_column_desc and main, which catches nothing here.
SortRaise ==
    /\ pc = "sort"
    /\ SortRaises(all_columns)
    /\ pc' = "raised"
    /\ UNCHANGED <<ignore, manifest, schemas, all_columns, idx, grouped,
                   status_code, stdout, hook_properties, events, ret>>

\* check_column_desc, lines 88-91.
SortOk ==
    /\ pc = "sort"
    /\ ~SortRaises(all_columns)
    /\ all_columns' = SortByName(all_columns)
    /\ idx' = 1
    /\ pc' = "group"
    /\ UNCHANGED <<ignore, manifest, schemas, grouped, status_code, stdout,
                   hook_properties, events, ret>>

\* Variant of IsConflict that needs three distinct descriptions.
IsConflict_Gt2(group_cnt) == Len(group_cnt) > 2

\* len(group_cnt.keys()) > 1
IsConflict(group_cnt) == Len(group_cnt) > 1

\* check_column_desc, lines 93-109: one iteration of the group loop.
GroupStep ==
    /\ pc = "group"
    /\ idx <= Len(all_columns)
    /\ LET last == GroupEnd(all_columns, idx)
           name == GroupKey(all_columns[idx])
           group_list == SubSeq(all_columns, idx, last)
           group_cnt == Counter([i \in 1..Len(group_list) |-> group_list[i].description])
       IN  /\ idx' = last + 1
           /\ grouped' = Append(grouped, [name |-> name, group_list |-> group_list])
           /\ IF Len(group_list) > 1 /\ IsConflict(group_cnt)
              THEN /\ status_code' = 1
                   /\ stdout' = Append(stdout, [kind |-> "conflict", name |-> name,
                                                counts |-> group_cnt])
              ELSE UNCHANGED <<status_code, stdout>>
    /\ UNCHANGED <<pc, ignore, manifest, schemas, all_columns, hook_properties,
                   events, ret>>

\* check_column_desc, lines 111-112: the loop is exhausted, return the status.
EndCheck ==
    /\ pc = "group"
    /\ idx > Len(all_columns)
    /\ hook_properties' = <<status_code>>
    /\ pc' = "track"
    /\ UNCHANGED <<ignore, manifest, schemas, all_columns, idx, grouped,
                   status_code, stdout, events, ret>>

\* Variant of TrackHookEvent that reports a fixed status.
TrackHookEvent_StatusZero ==
    /\ pc = "track"
    /\ events' = Append(events, [event_name |-> "Hook Executed", status |-> 0])
    /\ pc' = "return"
    /\ UNCHANGED <<ignore, manifest, schemas, all_columns, idx, grouped,
                   status_code, stdout, hook_properties, ret>>

\* main, lines 138-151.
TrackHookEvent ==
    /\ pc = "track"
    /\ events' = Append(events, [event_name |-> "Hook Executed",
                                 status |-> hook_properties[1]])
    /\ pc' = "return"
    /\ UNCHANGED <<ignore, manifest, schemas, all_columns, idx, grouped,
                   status_code, stdout, hook_properties, ret>>

\* main, line 153.
Return ==
    /\ pc = "return"
    /\ ret' = <<hook_properties[1]>>
    /\ pc' = "returned"
    /\ UNCHANGED <<ignore, manifest, schemas, all_columns, idx, grouped,
                   status_code, stdout, hook_properties, events>>

Next ==
    \/ LoadManifestFail
    \/ LoadManifestOk
    \/ Collect
    \/ SortRaise
    \/ SortOk
    \/ GroupStep
    \/ EndCheck
    \/ TrackHookEvent
    \/ Return

Spec == Init /\ [][Next]_vars

\* =====================================================================
\* What the input of the run says, read from schemas and ignore directly.
\* =====================================================================
IgnoreSet ==
    IF ignore.given THEN {ignore.names[i] : i \in 1..Len(ignore.names)} ELSE {}

RawColumns(i) ==
    IF "columns" \in DOMAIN schemas[i].schema THEN schemas[i].schema.columns ELSE <<>>

\* Column entry j of record i as (name, description, file), None for a
\* missing key.
EntryAt(i, j) ==
    LET c == RawColumns(i)[j]
    IN  [column_name |-> IF "name" \in DOMAIN c THEN c.name ELSE NoneVal,
         description |-> IF "description" \in DOMAIN c THEN c.description ELSE NoneVal,
         file |-> schemas[i].file]

RECURSIVE EntriesOfRecord(_, _)
EntriesOfRecord(i, j) ==
    IF j > Len(RawColumns(i)) THEN <<>>
    ELSE <<EntryAt(i, j)>> \o EntriesOfRecord(i, j + 1)

RECURSIVE EntriesFrom(_)
EntriesFrom(i) ==
    IF i > Len(schemas) THEN <<>>
    ELSE EntriesOfRecord(i, 1) \o EntriesFrom(i + 1)

\* Every column entry of the input, in input order.
AllEntries == EntriesFrom(1)

IsKept(e) == e.column_name \notin IgnoreSet

\* The entries whose name is not in the ignore set, in input order.
KeptEntries == SelectSeq(AllEntries, IsKept)

\* Occurrences, descriptions and files of name n among the entries es.
With(es, n) == {i \in 1..Len(es) : es[i].column_name = n}
NumIn(es, n) == Cardinality(With(es, n))
DescsIn(es, n) == {es[i].description : i \in With(es, n)}
FilesIn(es, n) == {es[i].file : i \in With(es, n)}
NamesIn(es) == {es[i].column_name : i \in 1..Len(es)}

\* 1 when some name among the entries es carries more than one description.
StatusOf(es) ==
    IF \E n \in NamesIn(es) : Cardinality(DescsIn(es, n)) > 1 THEN 1 ELSE 0

CountIn(seq, d) == Cardinality({i \in 1..Len(seq) : seq[i] = d})

\* s < t in case-sensitive lexicographic order, stated without recursion.
LexLess(s, t) ==
    \E k \in 1..Len(t) :
        /\ \A i \in 1..(k - 1) : i <= Len(s) /\ s[i] = t[i]
        /\ \/ k = Len(s) + 1
           \/ k <= Len(s) /\ s[k] < t[k]

\* Positions of the run.
InCheck == manifest = "loaded" /\ pc \notin {"load_manifest", "collect"}
LoopDone == manifest = "loaded" /\ pc \in {"track", "return", "returned"}
CheckReturned == LoopDone
ConflictLines == {i \in 1..Len(stdout) : stdout[i].kind = "conflict"}
Flagged(n) == \E i \in 1..Len(stdout) : stdout[i].kind = "conflict" /\ stdout[i].name = n

\* =====================================================================
\* Claims
\* =====================================================================

\* C1: when check_column_desc returns, its status is 1 if and only if some
\* non-ignored column name carries more than one distinct description value
\* (absent counted as a value) across all input records, else 0 (also with
\* zero records); during the group loop the status is the OR over the groups
\* consumed so far of (distinct descriptions > 1), so it never goes back to 0.
C1_StatusIsOrOverGroups ==
    LET kept == KeptEntries
    IN  /\ CheckReturned => hook_properties = <<StatusOf(kept)>>
        /\ (manifest = "loaded" /\ pc = "group") =>
              status_code =
                 IF \E i \in 1..Len(grouped) :
                       Cardinality(DescsIn(kept, grouped[i].name)) > 1
                 THEN 1 ELSE 0

C1_Witness ==
    /\ pc = "returned" /\ manifest = "loaded"
    /\ ret = <<1>>
    /\ \E n \in Names : /\ Cardinality(DescsIn(KeptEntries, n)) > 1
                        /\ Cardinality(FilesIn(KeptEntries, n)) > 1
    /\ \E n \in Names : /\ NumIn(KeptEntries, n) >= 1
                        /\ Cardinality(DescsIn(KeptEntries, n)) = 1

\* C2 as claimed: a name all of whose occurrences lie in one schema file is
\* never flagged as a conflict.
C2_SingleFileNeverFlagged ==
    \A i \in ConflictLines : Cardinality(FilesIn(KeptEntries, stdout[i].name)) > 1

\* C2 amended: a name that occurs in only one column entry is never flagged
\* and the status is 1 only when some name is flagged; a name occurring
\* several times inside one file is flagged when its descriptions differ.
C2_SingleOccurrenceNeverFlagged ==
    LET kept == KeptEntries
    IN  /\ \A i \in ConflictLines : NumIn(kept, stdout[i].name) >= 2
        /\ (InCheck /\ status_code = 1) => ConflictLines # {}
        /\ \A i \in 1..Len(grouped) :
              (Cardinality(FilesIn(kept, grouped[i].name)) = 1
                  /\ Cardinality(DescsIn(kept, grouped[i].name)) > 1)
              => Flagged(grouped[i].name)

C2_Witness ==
    /\ LoopDone
    /\ status_code = 1
    /\ \E i \in 1..Len(grouped) :
          /\ grouped[i].name \in Names
          /\ NumIn(KeptEntries, grouped[i].name) = 1
          /\ ~Flagged(grouped[i].name)
    /\ \E i \in ConflictLines : Cardinality(FilesIn(KeptEntries, stdout[i].name)) = 1
    /\ Len(schemas) = 2

\* C3: a column entry without a name yields no descriptor, and the sort,
\* group and compare step never ends in an error.
C3_NamelessSkipped ==
    /\ \A i \in 1..Len(all_columns) : all_columns[i].column_name # NoneVal
    /\ pc # "raised"

\* C4: no descriptor and no conflict line carries an ignored name, the
\* returned status is the status of the input without the occurrences of
\* ignored names, and a missing ignore argument ignores nothing.
C4_IgnoredNamesInvisible ==
    /\ \A i \in 1..Len(all_columns) : all_columns[i].column_name \notin IgnoreSet
    /\ \A i \in ConflictLines : stdout[i].name \notin IgnoreSet
    /\ CheckReturned => hook_properties[1] = StatusOf(KeptEntries)
    /\ (InCheck /\ ~ignore.given) => Len(all_columns) = Len(AllEntries)

C4_Witness ==
    /\ pc = "returned" /\ manifest = "loaded"
    /\ Str_a \in IgnoreSet
    /\ Cardinality(DescsIn(AllEntries, Str_a)) > 1
    /\ Cardinality(FilesIn(AllEntries, Str_a)) > 1
    /\ NumIn(AllEntries, Str_A) >= 1
    /\ ret = <<0>>
    /\ stdout = <<>>

\* C5: a consumed group holding an occurrence without description and an
\* occurrence with a description string (the empty string included) is
\* flagged and the status is 1; a group whose occurrences all lack a
\* description is not flagged.
C5_AbsentVersusPresent ==
    LET kept == KeptEntries
    IN  \A i \in 1..Len(grouped) :
            LET ds == DescsIn(kept, grouped[i].name)
            IN  /\ (NoneVal \in ds /\ ds # {NoneVal})
                      => (Flagged(grouped[i].name) /\ status_code = 1)
                /\ ds = {NoneVal} => ~Flagged(grouped[i].name)

C5_Witness ==
    /\ LoopDone
    /\ \E i \in 1..Len(grouped) :
          /\ DescsIn(KeptEntries, grouped[i].name) = {NoneVal, Str_empty}
          /\ Flagged(grouped[i].name)

\* C6: when loading the manifest fails, main has returned 1 after printing
\* the diagnostic line, and nothing of check_column_desc has run and no
\* event was emitted.
C6_ManifestFailureAborts ==
    manifest = "failed" =>
        /\ pc = "returned"
        /\ ret = <<1>>
        /\ stdout = <<[kind |-> "manifest_error", name |-> NoneVal, counts |-> <<>>]>>
        /\ schemas = <<>> /\ all_columns = <<>> /\ grouped = <<>>
        /\ hook_properties = <<>>
        /\ events = <<>>

C6_Witness == manifest = "failed" /\ pc = "returned" /\ ret = <<1>> /\ events = <<>>

\* C7: every conflict line lists each distinct description of its name once,
\* with the number of occurrences of the name carrying it; the counts add up
\* to the occurrences of the name and there are at least two buckets; a
\* consumed group whose descriptions agree has no conflict line.
C7_BucketCounts ==
    LET kept == KeptEntries
    IN  /\ \A i \in ConflictLines :
              LET n == stdout[i].name
                  cnt == stdout[i].counts
              IN  /\ Len(cnt) >= 2
                  /\ \A a, b \in 1..Len(cnt) : cnt[a].key = cnt[b].key => a = b
                  /\ {cnt[a].key : a \in 1..Len(cnt)} = DescsIn(kept, n)
                  /\ \A a \in 1..Len(cnt) :
                        cnt[a].count =
                           Cardinality({p \in With(kept, n) :
                                           kept[p].description = cnt[a].key})
                  /\ \A j \in ConflictLines : stdout[j].name = n => j = i
        /\ \A i \in 1..Len(grouped) :
              Cardinality(DescsIn(kept, grouped[i].name)) <= 1
                 => ~Flagged(grouped[i].name)

C7_Witness ==
    /\ LoopDone
    /\ \E i \in ConflictLines :
          /\ Cardinality(FilesIn(KeptEntries, stdout[i].name)) > 1
          /\ \E a, b \in 1..Len(stdout[i].counts) :
                /\ stdout[i].counts[a] = [key |-> Str_x, count |-> 2]
                /\ stdout[i].counts[b] = [key |-> NoneVal, count |-> 1]

\* C8: an event is emitted only after check_column_desc has returned, at
\* most one is emitted, its status is the status check_column_desc
\* returned, and when main returns after a loaded manifest exactly one event
\* was emitted and the return value is that same status.
C8_EventAfterCheck ==
    /\ Len(events) <= 1
    /\ events # <<>> =>
          /\ manifest = "loaded" /\ pc \in {"return", "returned"}
          /\ hook_properties = <<status_code>>
          /\ idx > Len(all_columns)
          /\ events[1].status = hook_properties[1]
    /\ (manifest = "loaded" /\ pc \in {"return", "returned"}) => Len(events) = 1
    /\ (manifest = "loaded" /\ pc = "returned") => ret = <<status_code>>
    /\ hook_properties # <<>> => CheckReturned

C8_Witness ==
    /\ manifest = "loaded" /\ pc = "returned"
    /\ Len(events) = 1 /\ events[1].status = 1
    /\ ret = <<1>> /\ hook_properties = <<1>>

\* C9: the group loop consumes the names in strictly ascending
\* case-sensitive lexicographic order, so every name at most once; every
\* group holds all the non-ignored occurrences of its name, of every
\* record; and when the loop is done every non-ignored name was consumed.
C9_GroupsNeverSplit ==
    LET kept == KeptEntries
    IN  /\ \A i, j \in 1..Len(grouped) :
              i < j => LexLess(grouped[i].name, grouped[j].name)
        /\ \A i \in 1..Len(grouped) :
              LET g == grouped[i]
              IN  /\ Len(g.group_list) = NumIn(kept, g.name)
                  /\ \A m \in 1..Len(g.group_list) :
                        g.group_list[m].column_name = g.name
                  /\ {g.group_list[m].file : m \in 1..Len(g.group_list)}
                        = FilesIn(kept, g.name)
        /\ LoopDone => {grouped[i].name : i \in 1..Len(grouped)} = NamesIn(kept)

C9_Witness ==
    /\ LoopDone
    /\ Len(grouped) = 2
    /\ grouped[1].name = Str_A /\ grouped[2].name = Str_a
    /\ Len(grouped[2].group_list) = 2
    /\ Cardinality(FilesIn(KeptEntries, Str_a)) = 2
    /\ Len(KeptEntries) = 3
    /\ KeptEntries[1].column_name = Str_a
    /\ KeptEntries[2].column_name = Str_A
    /\ KeptEntries[3].column_name = Str_a

\* C10: the descriptors collected are exactly one per column entry whose
\* name is not in the ignore set, in input order when collected; sorting
\* only permutes them; the names held are the input names minus the ignore
\* set.
C10_NoOccurrenceLostOrDuplicated ==
    InCheck =>
        LET kept == KeptEntries
        IN  /\ pc = "sort" => all_columns = kept
            /\ Len(all_columns) = Len(kept)
            /\ \A i \in 1..Len(all_columns) :
                  CountIn(all_columns, all_columns[i]) = CountIn(kept, all_columns[i])
            /\ {all_columns[i].column_name : i \in 1..Len(all_columns)}
                  = NamesIn(AllEntries) \ IgnoreSet

C10_Witness ==
    /\ manifest = "loaded" /\ pc = "group"
    /\ Len(schemas) = 2
    /\ Len(all_columns) = 3
    /\ all_columns # KeptEntries
    /\ all_columns[1].file # all_columns[2].file
    /\ all_columns[1] = all_columns[2] \/ all_columns[2].column_name = all_columns[3].column_name

====
